---- MODULE Spec2Model ----
(***************************************************************************)
(* Model of the transaction ETL / anomaly-detection / persistence pipeline *)
(* of ai_detection_app (app/etl.py, app/ml_model.py, app/db_operations.py, *)
(* app/main.py).                                                           *)
(*                                                                         *)
(* Conventions                                                             *)
(*  - Python str values are sequences of characters; a character is a      *)
(*    one-token string ("a", " ", "U+0138", ...).                          *)
(*  - Python values are tagged records; None and NaN/NaT are None, NaN.    *)
(*  - Amounts are integers counting thousandths (1.234 is 1234).           *)
(*  - A raised exception is the value Raised.                              *)
(***************************************************************************)
EXTENDS Integers, Sequences, FiniteSets, TLC

VARIABLES
    store,        \* transactions table: transaction_id -> row, or None
    connection,   \* DatabaseManager.connection: "none" | "open" | "closed"
    run,          \* what the last execution of main() did
    firstInsert,  \* history: per id, the anomaly fields written by its INSERT
    lastSaved,    \* history: per id, the last committed amount / accounts
    raw,          \* pipeline under test: the uploaded document
    stage,        \* pipeline under test: last stage applied
    records,      \* pipeline under test: extract_transactions output
    tdf,          \* pipeline under test: transform_data output
    sdf,          \* pipeline under test: detect_anomalies output
    ribIn,        \* clean_rib under test: argument
    ribOut,       \* clean_rib under test: clean_rib(ribIn)
    ribTwice,     \* clean_rib under test: clean_rib(clean_rib(ribIn))
    repIn,        \* explain_anomalies under test: argument
    repOut        \* explain_anomalies under test: returned value

vars == <<store, connection, run, firstInsert, lastSaved,
          raw, stage, records, tdf, sdf,
          ribIn, ribOut, ribTwice, repIn, repOut>>

dbVars   == <<store, connection, run, firstInsert, lastSaved>>
etlVars  == <<raw, stage, records, tdf, sdf>>
ribVars  == <<ribIn, ribOut, ribTwice>>
repVars  == <<repIn, repOut>>

\* Python values are tagged records, so that values of different Python
\* types can be compared
None     == [t |-> "None"]
NaN      == [t |-> "nan"]
Str(s)   == [t |-> "str", v |-> s]
Num(n)   == [t |-> "float", v |-> n]
List(s)  == [t |-> "list", v |-> s]
Raised   == [t |-> "raised"]
Pending  == [t |-> "pending"]

\* pd.isna(x) for a scalar x
IsNa(x) == x = None \/ x = NaN

(***************************************************************************)
(* Bounds                                                                  *)
(***************************************************************************)
MaxRibLen == 3
MaxRepRows == 3
MaxTx == 2
MaxBatch == 2
MaxEntries == 1

(***************************************************************************)
(* Characters and strings                                                  *)
(***************************************************************************)
\* characters str.split() treats as whitespace
Whitespace == {" ", "\t"}

\* characters for which str.islower() is true: "a", U+0138 (kra, a lower-case
\* letter with no upper-case mapping) and U+00DF (sharp s)
LowerCase == {"a", "U+0138", "U+00DF"}

Char == {"a", "B", "7", " ", "\t", "U+0138", "U+00DF"}

\* str.upper() of one character (full case mapping: sharp s becomes "SS")
UpperChar(c) ==
    CASE c = "a"      -> <<"A">>
      [] c = "U+00DF" -> <<"S", "S">>
      [] OTHER        -> <<c>>

\* str.upper()
RECURSIVE Upper(_)
Upper(s) ==
    IF s = <<>> THEN <<>> ELSE UpperChar(Head(s)) \o Upper(Tail(s))

DropIfSpace(c) == IF c \in Whitespace THEN <<>> ELSE <<c>>

\* ''.join(s.split())
RECURSIVE JoinSplit(_)
JoinSplit(s) ==
    IF s = <<>> THEN <<>> ELSE DropIfSpace(Head(s)) \o JoinSplit(Tail(s))

\* str.strip()
RECURSIVE LStrip(_)
LStrip(s) ==
    IF s # <<>> /\ Head(s) \in Whitespace THEN LStrip(Tail(s)) ELSE s

RECURSIVE RStrip(_)
RStrip(s) ==
    IF s # <<>> /\ s[Len(s)] \in Whitespace
    THEN RStrip(SubSeq(s, 1, Len(s) - 1)) ELSE s

Strip(s) == RStrip(LStrip(s))

\* isinstance(x, str)
IsStr(x) == x.t = "str"

\* every string of at most n characters
StringsUpTo(n) == UNION {[1..k -> Char] : k \in 0..n}

(***************************************************************************)
(* etl.clean_rib                                                           *)
(***************************************************************************)
\* a non-string scalar and a list of several elements
IntValue  == [t |-> "int", v |-> 42]
ListValue == List(<<1, 2>>)

\* pd.isna(x) for a scalar is a bool; for a list it is an array, whose truth
\* value in `pd.isna(rib) or ...` raises ValueError
clean_rib_uncased(rib) ==
    IF rib.t = "list" THEN Raised
    ELSE IF IsNa(rib) \/ ~IsStr(rib) THEN Str(<<>>)
    ELSE Str(JoinSplit(rib.v))

clean_rib(rib) ==
    IF rib.t = "list" THEN Raised
    ELSE IF IsNa(rib) \/ ~IsStr(rib) THEN Str(<<>>)
    ELSE LET rib_cleaned == Upper(JoinSplit(rib.v))
         IN  IF rib_cleaned = <<>> THEN Str(<<>>) ELSE Str(rib_cleaned)

RibInputs == {Str(s) : s \in StringsUpTo(MaxRibLen)} \cup {None, NaN, IntValue, ListValue}

(***************************************************************************)
(* float(text) for decimal literals: optional surrounding whitespace, an   *)
(* optional sign, digits with at most one point and at most three decimals *)
(* (the precision of the model); anything else raises ValueError.          *)
(***************************************************************************)
DigitSeq == <<"0", "1", "2", "3", "4", "5", "6", "7", "8", "9">>

Digits == {DigitSeq[i] : i \in 1..10}

DigitVal(c) == (CHOOSE i \in 1..10 : DigitSeq[i] = c) - 1

RECURSIVE DigitsToNat(_)
DigitsToNat(s) ==
    IF s = <<>> THEN 0
    ELSE 10 * DigitsToNat(SubSeq(s, 1, Len(s) - 1)) + DigitVal(s[Len(s)])

Pow10(k) == CASE k = 0 -> 1 [] k = 1 -> 10 [] k = 2 -> 100 [] OTHER -> 1000

ParseFloat(text) ==
    LET s      == Strip(text)
        signed == s # <<>> /\ s[1] \in {"-", "+"}
        body   == IF signed THEN Tail(s) ELSE s
        points == {i \in 1..Len(body) : body[i] = "."}
        p      == IF points = {} THEN Len(body) + 1
                  ELSE CHOOSE i \in points : TRUE
        whole  == SubSeq(body, 1, p - 1)
        frac   == SubSeq(body, p + 1, Len(body))
        ok     == /\ Cardinality(points) <= 1
                  /\ \A i \in 1..Len(body) : body[i] \in Digits \cup {"."}
                  /\ Len(whole) + Len(frac) >= 1
                  /\ Len(frac) <= 3
        mag    == DigitsToNat(whole) * 1000
                  + DigitsToNat(frac) * Pow10(3 - Len(frac))
    IN  IF ~ok THEN Raised
        ELSE Num(IF signed /\ s[1] = "-" THEN 0 - mag ELSE mag)

(***************************************************************************)
(* DataFrames: the set of column names and the rows in index order, each   *)
(* row a function from the column names to Python values                   *)
(***************************************************************************)
DataFrame(cols, rows) == [t |-> "df", cols |-> cols, rows |-> rows]

IsDataFrame(x) == x.t = "df"

Restrict(f, S) == [c \in S |-> f[c]]

RECURSIVE SumOf(_, _)
SumOf(rows, col) ==
    IF rows = <<>> THEN 0 ELSE Head(rows)[col].v + SumOf(Tail(rows), col)

MaxOf(rows, col) ==
    CHOOSE m \in {rows[i][col].v : i \in 1..Len(rows)} :
        \A i \in 1..Len(rows) : rows[i][col].v <= m

MinOf(rows, col) ==
    CHOOSE m \in {rows[i][col].v : i \in 1..Len(rows)} :
        \A i \in 1..Len(rows) : rows[i][col].v >= m

RemoveAt(s, i) == SubSeq(s, 1, i - 1) \o SubSeq(s, i + 1, Len(s))

\* DataFrame.nlargest(n, col): the n rows of largest col, largest first,
\* equal values in index order
RECURSIVE NLargest(_, _, _)
NLargest(rows, n, col) ==
    IF n = 0 \/ rows = <<>> THEN <<>>
    ELSE LET m == MaxOf(rows, col)
             i == CHOOSE k \in 1..Len(rows) :
                      /\ rows[k][col].v = m
                      /\ \A j \in 1..(k - 1) : rows[j][col].v # m
         IN  <<rows[i]>> \o NLargest(RemoveAt(rows, i), n - 1, col)

(***************************************************************************)
(* The XML document.  An element is None when it is absent; a leaf element *)
(* is Str(text); the settlement amount element also carries the Ccy        *)
(* attribute (None when absent).  A document is                            *)
(*   [wellformed, valid, text008, GrpHdr, txs]                             *)
(* with GrpHdr = None or [CreDtTm], and each entry of txs (CdtTrfTxInf) a  *)
(*   [TxId, IntrBkSttlmAmt, AccptncDtTm, Dbtr, Cdtr, DbtrAcct, CdtrAcct]   *)
(* with Dbtr, Cdtr = None or [Nm] and DbtrAcct, CdtrAcct = None or [Id].   *)
(* txs are the entries in the pacs.008.001.08 namespace, the only ones the *)
(* Extractor finds; text008 is whether the lower-cased text contains       *)
(* 'pacs.008', which the namespace of such an entry does.                  *)
(* The columns that are copied through unchanged (message_id, the other    *)
(* identifiers, birth data, BICs, payment-type data) are left out.         *)
(***************************************************************************)
AmtElem(text, ccy) == [t |-> "elem", v |-> text, Ccy |-> ccy]

get_text(element, leaf) ==
    IF element = None THEN None
    ELSE LET found == element[leaf]
         IN  IF found # None /\ found.v # <<>> THEN Str(Strip(found.v))
             ELSE None

get_account_id(acct) ==
    IF acct = None THEN None
    ELSE LET account_id == get_text(acct, "Id")
         IN  IF account_id # None /\ account_id.v # <<>> THEN account_id
             ELSE None

\* lines 99-107: the amount and the currency of one entry
ExtractAmount(tx) ==
    LET amount_elem == tx.IntrBkSttlmAmt
    IN  IF amount_elem # None /\ amount_elem.v # <<>>
        THEN LET parsed == ParseFloat(amount_elem.v)
             IN  IF parsed = Raised
                 THEN [amount |-> None, currency |-> None]
                 ELSE [amount |-> parsed, currency |-> amount_elem.Ccy]
        ELSE [amount |-> None, currency |-> None]

ExtractOne(doc, tx) ==
    [transaction_id      |-> get_text(tx, "TxId"),
     amount              |-> ExtractAmount(tx).amount,
     currency            |-> ExtractAmount(tx).currency,
     creation_date       |-> get_text(doc.GrpHdr, "CreDtTm"),
     acceptance_datetime |-> get_text(tx, "AccptncDtTm"),
     debtor_name         |-> get_text(tx.Dbtr, "Nm"),
     debtor_account      |-> get_account_id(tx.DbtrAcct),
     creditor_name       |-> get_text(tx.Cdtr, "Nm"),
     creditor_account    |-> get_account_id(tx.CdtrAcct)]

RecordCols ==
    {"transaction_id", "amount", "currency", "creation_date",
     "acceptance_datetime", "debtor_name", "debtor_account",
     "creditor_name", "creditor_account"}

\* ET.fromstring raises on a document that is not well-formed
extract_transactions(doc) ==
    IF ~doc.wellformed THEN Raised
    ELSE List([i \in 1..Len(doc.txs) |-> ExtractOne(doc, doc.txs[i])])

(***************************************************************************)
(* etl.transform_data                                                      *)
(***************************************************************************)
Abs(n) == IF n < 0 THEN 0 - n ELSE n

\* round(x, 2) on thousandths: to the nearest hundredth, an exact tie to
\* the even one (the amounts of the model are exact in binary or no ties)
Round2(n) ==
    LET q == n \div 10
        r == n % 10
    IN  IF r < 5 THEN q * 10
        ELSE IF r > 5 THEN (q + 1) * 10
        ELSE IF q % 2 = 0 THEN q * 10 ELSE (q + 1) * 10

\* np.log1p on thousandths, rounded to thousandths, for the amounts of the
\* model
Log1p(n) ==
    CASE n = 0    -> 0
      [] n = 120  -> 113
      [] n = 125  -> 118
      [] n = 1000 -> 693
      [] n = 1230 -> 802
      [] n = 1234 -> 804
      [] n = 2500 -> 1253
      [] n = 7000 -> 2079

Timestamp(d) == [t |-> "ts", v |-> d]

\* pd.Timestamp('2000-01-01')
SentinelDate == 20000101

DateText == <<"2", "0", "2", "4", "-", "0", "5", "-", "0", "1">>

\* pd.to_datetime(x, errors='coerce') of one value: the one date text of the
\* model parses, every other text and None give NaT
to_datetime(x) ==
    IF IsNa(x) THEN NaN
    ELSE IF x.v = DateText THEN Timestamp(20240501)
    ELSE NaN

UNKNOWN == <<"U", "N", "K", "N", "O", "W", "N">>
MAD == <<"M", "A", "D">>

fillna(x, value) == IF IsNa(x) THEN value ELSE x

\* lambda x: default if pd.isna(x) or str(x).strip() == '' else x
DefaultIfBlank(x, default) ==
    IF IsNa(x) \/ Strip(x.v) = <<>> THEN default ELSE x

\* line 149
TransformAmount(x) == IF IsNa(x) THEN NaN ELSE Num(Abs(x.v))

\* line 154
TransformDate(x) == fillna(to_datetime(x), Timestamp(SentinelDate))

\* lines 158-159 with only the fillna of line 158
TransformName_fillna_only(x) == fillna(x, Str(UNKNOWN))

\* lines 158-159
TransformName(x) == DefaultIfBlank(fillna(x, Str(UNKNOWN)), Str(UNKNOWN))

\* lines 162-163
TransformCurrency(x) == DefaultIfBlank(fillna(x, Str(MAD)), Str(MAD))

\* lines 168-169
TransformAccount(x) == clean_rib(fillna(x, Str(<<>>)))

\* line 172
AmountLog(x) == IF IsNa(x) THEN NaN ELSE Num(Round2(x.v))

TransformRow(r) ==
    LET amount == TransformAmount(r.amount)
    IN  [transaction_id      |-> r.transaction_id,
         amount              |-> amount,
         currency            |-> TransformCurrency(r.currency),
         creation_date       |-> TransformDate(r.creation_date),
         acceptance_datetime |-> TransformDate(r.acceptance_datetime),
         debtor_name         |-> TransformName(r.debtor_name),
         debtor_account      |-> TransformAccount(r.debtor_account),
         creditor_name       |-> TransformName(r.creditor_name),
         creditor_account    |-> TransformAccount(r.creditor_account),
         amount_log          |-> AmountLog(amount)]

\* pd.DataFrame([]) has no column, so every `if col in df.columns` is false
\* and the empty frame is returned.  A column whose values are all None
\* keeps dtype object, on which Series.abs() raises TypeError; with at
\* least one float the column is float64 and each None is NaN.
transform_data(transactions) ==
    LET recs == transactions.v
    IN  IF recs = <<>> THEN DataFrame({}, <<>>)
        ELSE IF \A i \in 1..Len(recs) : recs[i].amount = None THEN Raised
        ELSE DataFrame(RecordCols \cup {"amount_log"},
                       [i \in 1..Len(recs) |-> TransformRow(recs[i])])

(***************************************************************************)
(* ml_model.detect_anomalies                                               *)
(*                                                                         *)
(* IsolationForest is a library: its decision_function values are an input *)
(* of the model (scores, one per row), and predict is -1 exactly where the *)
(* decision function is negative.  Whether fit accepts NaN depends on the  *)
(* installed scikit-learn (acceptsNaN); it raises on zero samples.         *)
(***************************************************************************)
\* decision_function values, counted in hundred-thousandths
ScoreVals == {-50, 83}

HasNa(df, col) == \E i \in 1..Len(df.rows) : IsNa(df.rows[i][col])

\* df[col] = values
WithColumn(df, col, values) ==
    DataFrame(df.cols \cup {col},
              [i \in 1..Len(df.rows) |->
                  [c \in df.cols \cup {col} |->
                      IF c = col THEN values[i] ELSE df.rows[i][c]]])

\* lines 46-47
EnsureAmountLog(df) ==
    IF "amount_log" \in df.cols THEN df
    ELSE LET log1p == [i \in 1..Len(df.rows) |->
                          IF IsNa(df.rows[i]["amount"]) THEN NaN
                          ELSE Num(Log1p(df.rows[i]["amount"].v))]
         IN  WithColumn(df, "amount_log", log1p)

detect_anomalies(df0, acceptsNaN, scores) ==
    IF "amount" \notin df0.cols THEN Raised
    ELSE LET df == EnsureAmountLog(df0)
             score == [i \in 1..Len(df.rows) |-> Num(scores[i])]
             flag  == [i \in 1..Len(df.rows) |->
                          IF scores[i] < 0 THEN Num(1) ELSE Num(0)]
         IN  IF df.rows = <<>> THEN Raised
             ELSE IF (HasNa(df, "amount") \/ HasNa(df, "amount_log"))
                     /\ ~acceptsNaN
             THEN Raised
             ELSE WithColumn(WithColumn(df, "anomaly_score", score),
                             "is_anomaly", flag)

(***************************************************************************)
(* ml_model.explain_anomalies                                              *)
(***************************************************************************)
TopN == 5

required_cols == {"is_anomaly", "anomaly_score", "amount"}

IsFlagged(row) == row["is_anomaly"] = Num(1)

\* a column holding a non-numeric value has dtype object
IsObjectColumn(df, col) ==
    \E i \in 1..Len(df.rows) : df.rows[i][col].t # "float"

ErrorMarker(why) == [t |-> "error", why |-> why]
InfoMarker == [t |-> "info"]

\* the report proper; mean_amount is the exact quotient sum / count
Report(anomalies) ==
    [t |-> "report",
     count |-> Len(anomalies),
     mean_amount |-> [sum |-> SumOf(anomalies, "amount"), n |-> Len(anomalies)],
     max_amount |-> MaxOf(anomalies, "amount"),
     min_score |-> MinOf(anomalies, "anomaly_score"),
     top_anomalies |-> NLargest(anomalies, TopN, "amount")]

\* the same without the except clause: an exception leaves the function
explain_anomalies_uncaught(df) ==
    IF ~IsDataFrame(df) THEN Raised
    ELSE LET missing == required_cols \ df.cols
         IN  IF missing # {} THEN ErrorMarker(missing)
             ELSE LET anomalies == SelectSeq(df.rows, IsFlagged)
                  IN  IF anomalies = <<>> THEN InfoMarker
                      ELSE IF IsObjectColumn(df, "amount")
                           THEN Raised
                           ELSE Report(anomalies)

\* mean and nlargest raise TypeError on an amount column of dtype object;
\* `except Exception` turns every exception into an error marker
explain_anomalies(df) ==
    IF ~IsDataFrame(df) THEN ErrorMarker("exception")
    ELSE LET missing == required_cols \ df.cols
         IN  IF missing # {} THEN ErrorMarker(missing)
             ELSE LET anomalies == SelectSeq(df.rows, IsFlagged)
                  IN  IF anomalies = <<>> THEN InfoMarker
                      ELSE IF IsObjectColumn(df, "amount")
                           THEN ErrorMarker("exception")
                           ELSE Report(anomalies)

(***************************************************************************)
(* db_operations.DatabaseManager                                           *)
(*                                                                         *)
(* The table maps each transaction_id to its row, or to None.  The         *)
(* surrogate id and processing_date columns are left out.  A fault is what *)
(* the database does to one call: stmt = -1 nothing, 0 the connection      *)
(* attempt fails, k in 1..n the k-th INSERT fails, n + 1 the commit fails; *)
(* kind "error" leaves the connection usable, kind "lost" (of an INSERT)   *)
(* breaks it, so that the rollback raises as well.  A connection lost      *)
(* during the commit itself is not modelled.                               *)
(***************************************************************************)
TxIds == {<<"T", "1">>, <<"T", "2">>}

\* str(x)
StrOf(x) == IF x = None THEN <<"N", "o", "n", "e">> ELSE x.v

\* a float stored in a DECIMAL(15, 2) column: rounded to hundredths, a tie
\* away from zero; NaN is a value of the type
ToDecimal2(x) ==
    IF IsNa(x) THEN NaN ELSE Num(((x.v + 5) \div 10) * 10)

\* a float stored in the DECIMAL(10, 4) column of anomaly_score (line 49),
\* counted in hundred-thousandths: rounded to ten-thousandths, a tie away
\* from zero
ToDecimal4(x) ==
    IF IsNa(x) THEN NaN
    ELSE IF x.v >= 0 THEN Num(((x.v + 5) \div 10) * 10)
    ELSE Num(0 - (((0 - x.v) + 5) \div 10) * 10)

\* bool(x) of a number
ToBool(x) == x.v # 0

\* line 102: text008 is whether xml_content.lower() contains 'pacs.008'
FileType(text008) == IF text008 THEN "PACS.008" ELSE "PACS.001"

\* the row an INSERT without conflict writes (lines 104-111, 127-140)
InsertedRow(row, file_type) ==
    [amount              |-> ToDecimal2(row["amount"]),
     currency            |-> StrOf(row["currency"]),
     creation_date       |-> row["creation_date"],
     acceptance_datetime |-> row["acceptance_datetime"],
     debtor_name         |-> StrOf(row["debtor_name"]),
     creditor_name       |-> StrOf(row["creditor_name"]),
     debtor_account      |-> StrOf(row["debtor_account"]),
     creditor_account    |-> StrOf(row["creditor_account"]),
     is_anomaly          |-> ToBool(row["is_anomaly"]),
     anomaly_score       |-> ToDecimal4(row["anomaly_score"]).v,
     file_type           |-> file_type]

\* ON CONFLICT DO NOTHING: the row already stored is kept as it is
Upsert_first_wins(table, row, file_type) ==
    LET id == StrOf(row["transaction_id"])
    IN  IF table[id] = None
        THEN [table EXCEPT ![id] = InsertedRow(row, file_type)]
        ELSE table

\* ON CONFLICT DO UPDATE that also overwrites the anomaly columns
Upsert_overwriting(table, row, file_type) ==
    LET id == StrOf(row["transaction_id"])
    IN  [table EXCEPT ![id] = InsertedRow(row, file_type)]

\* lines 104-118: INSERT ... ON CONFLICT (transaction_id) DO UPDATE SET
\* amount, debtor_account, creditor_account
Upsert(table, row, file_type) ==
    LET id  == StrOf(row["transaction_id"])
        new == InsertedRow(row, file_type)
    IN  IF table[id] = None THEN [table EXCEPT ![id] = new]
        ELSE [table EXCEPT ![id].amount = new.amount,
                           ![id].debtor_account = new.debtor_account,
                           ![id].creditor_account = new.creditor_account]

\* the loop of lines 126-140 over the first k rows
RECURSIVE UpsertAll(_, _, _, _)
UpsertAll(table, rows, k, file_type) ==
    IF k = 0 THEN table
    ELSE Upsert(UpsertAll(table, rows, k - 1, file_type), rows[k], file_type)

\* a statement the database rejects whatever else happens: currency is
\* VARCHAR(3)
Rejected(row) == Len(StrOf(row["currency"])) > 3

NoFault == [stmt |-> -1, kind |-> "none"]

Faults(n) ==
    {NoFault, [stmt |-> 0, kind |-> "error"], [stmt |-> n + 1, kind |-> "error"]}
    \cup [stmt : 1..n, kind : {"error", "lost"}]

\* the first statement that fails, n + 1 for the commit, 0 if none does
FirstFailure(rows, fault) ==
    LET failing == {k \in 1..Len(rows) : fault.stmt = k \/ Rejected(rows[k])}
                   \cup (IF fault.stmt = Len(rows) + 1 THEN {fault.stmt} ELSE {})
    IN  IF failing = {} THEN 0
        ELSE CHOOSE k \in failing : \A j \in failing : k <= j

\* the table after a failure at statement k, when every row is committed
\* on its own
AfterFailure_partial(table, rows, k, file_type) ==
    UpsertAll(table, rows, IF k > Len(rows) THEN Len(rows) ELSE k - 1, file_type)

\* the table after a failure at statement k: nothing was committed (lines
\* 145-152; closing the connection discards the transaction also when the
\* rollback raised)
AfterFailure(table, rows, k, file_type) == table

\* lines 27-31 with the reconnection limited to an absent handle
NeedsConnect_none_only(conn) == conn = "none"

\* lines 27-31
NeedsConnect(conn) == conn = "none" \/ conn = "closed"

\* lines 100-152; result is "True", "False" or "raised"
save_transactions(table, conn, df, text008, fault) ==
    LET file_type == FileType(text008)
        k == FirstFailure(df.rows, fault)
    IN  IF NeedsConnect(conn) /\ fault.stmt = 0
        THEN [result |-> "False", store |-> table, connection |-> conn]
        ELSE IF k = 0
        THEN [result |-> "True",
              store |-> UpsertAll(table, df.rows, Len(df.rows), file_type),
              connection |-> "closed"]
        ELSE [result |-> IF fault.stmt = k /\ fault.kind = "lost"
                         THEN "raised" ELSE "False",
              store |-> AfterFailure(table, df.rows, k, file_type),
              connection |-> "closed"]

(***************************************************************************)
(* History of the committed saves, taken from the datasets themselves:     *)
(* firstInsert[id] is what the first row of id said of the anomaly and of  *)
(* the document when id entered the table; lastSaved[id] is the amount and *)
(* the accounts of the last row of id in the last committed dataset,       *)
(* whether id was saved again after its insert (resaved), and whether such *)
(* a later dataset disagreed with firstInsert[id] (differed).              *)
(***************************************************************************)
RowsOf(df, id) ==
    SelectSeq(df.rows, LAMBDA r : StrOf(r["transaction_id"]) = id)

AnomalyOf(row, text008) ==
    [is_anomaly    |-> row["is_anomaly"],
     anomaly_score |-> row["anomaly_score"],
     file_type     |-> FileType(text008)]

NextFirstInsert(df, text008) ==
    [id \in TxIds |->
        IF firstInsert[id] = None /\ RowsOf(df, id) # <<>>
        THEN AnomalyOf(RowsOf(df, id)[1], text008)
        ELSE firstInsert[id]]

NextLastSaved(df, text008) ==
    [id \in TxIds |->
        LET mine == RowsOf(df, id)
            last == mine[Len(mine)]
            old  == firstInsert[id]
        IN  IF mine = <<>> THEN lastSaved[id]
            ELSE [amount           |-> last["amount"],
                  debtor_account   |-> last["debtor_account"],
                  creditor_account |-> last["creditor_account"],
                  resaved  |-> old # None,
                  differed |->
                      /\ old # None
                      /\ \/ lastSaved[id].differed
                         \/ /\ mine[1]["is_anomaly"] # old.is_anomaly
                            /\ FileType(text008) # old.file_type]]

\* the effect of one call of save_transactions on the database variables
SaveEffect(out, df, text008) ==
    /\ store' = out.store
    /\ connection' = out.connection
    /\ IF out.result = "True"
       THEN /\ firstInsert' = NextFirstInsert(df, text008)
            /\ lastSaved' = NextLastSaved(df, text008)
       ELSE UNCHANGED <<firstInsert, lastSaved>>

(***************************************************************************)
(* Variables of the parts that a specification does not exercise           *)
(***************************************************************************)

NoRow == [id \in TxIds |-> None]

DbIdle ==
    /\ store = NoRow
    /\ connection = "none"
    /\ run = Pending
    /\ firstInsert = NoRow
    /\ lastSaved = NoRow

EtlIdle ==
    /\ raw = Pending
    /\ stage = "idle"
    /\ records = Pending
    /\ tdf = Pending
    /\ sdf = Pending

RibIdle == ribIn = Pending /\ ribOut = Pending /\ ribTwice = Pending

RepIdle == repIn = Pending /\ repOut = Pending

(***************************************************************************)
(* Specification SpecRib: clean_rib applied once and twice to any value    *)
(***************************************************************************)
RibInit ==
    /\ ribIn \in RibInputs
    /\ ribOut = Pending
    /\ ribTwice = Pending
    /\ DbIdle /\ EtlIdle /\ RepIdle

CleanOnce ==
    /\ ribOut = Pending
    /\ ribOut' = clean_rib(ribIn)
    /\ UNCHANGED <<ribIn, ribTwice, dbVars, etlVars, repVars>>

CleanAgain ==
    /\ ribOut # Pending /\ ribOut # Raised
    /\ ribTwice = Pending
    /\ ribTwice' = clean_rib(ribOut)
    /\ UNCHANGED <<ribIn, ribOut, dbVars, etlVars, repVars>>

RibNext == CleanOnce \/ CleanAgain

SpecRib == RibInit /\ [][RibNext]_vars

HasChar(s, set) == \E i \in 1..Len(s) : s[i] \in set

\* C9 as stated: for every input value (string, null or non-string)
\* clean_rib returns a string without whitespace and without lower-case
\* letters, and cleaning the result again returns the same string.
C9_Idempotent_AnyInput ==
    ribOut # Pending =>
        /\ IsStr(ribOut)
        /\ ~HasChar(ribOut.v, Whitespace)
        /\ ~HasChar(ribOut.v, LowerCase)
        /\ ribTwice # Pending => ribTwice = ribOut

\* C9 amended: for every scalar input (string, null, non-string scalar)
\* clean_rib returns a string without whitespace that upper-casing leaves
\* unchanged, and cleaning the result again returns the same string.
C9_Idempotent_Scalar ==
    (ribOut # Pending /\ ribIn.t # "list") =>
        /\ IsStr(ribOut)
        /\ ~HasChar(ribOut.v, Whitespace)
        /\ Upper(ribOut.v) = ribOut.v
        /\ ribTwice # Pending => ribTwice = ribOut

\* a string with whitespace and a lower-case letter was cleaned twice
C9_Witness ==
    /\ IsStr(ribIn)
    /\ HasChar(ribIn.v, Whitespace) /\ HasChar(ribIn.v, {"a"})
    /\ ribTwice # Pending
    /\ ribOut # ribIn

(***************************************************************************)
(* Specification SpecReport: explain_anomalies applied to any value        *)
(***************************************************************************)
RepRows ==
    [is_anomaly : {Num(0), Num(1)},
     anomaly_score : {Num(-50), Num(80)},
     amount : {Num(1000), Num(2500), Str(<<"7">>)}]

RepColumnSets == {required_cols \ M : M \in SUBSET required_cols}

RepInputs ==
    {None}
    \cup {DataFrame(cols, [i \in 1..Len(rows) |-> Restrict(rows[i], cols)]) :
             cols \in RepColumnSets,
             rows \in UNION {[1..n -> RepRows] : n \in 0..MaxRepRows}}

RepInit ==
    /\ repIn \in RepInputs
    /\ repOut = Pending
    /\ DbIdle /\ EtlIdle /\ RibIdle

Explain ==
    /\ repOut = Pending
    /\ repOut' = explain_anomalies(repIn)
    /\ UNCHANGED <<repIn, dbVars, etlVars, ribVars>>

RepNext == Explain

SpecReport == RepInit /\ [][RepNext]_vars

MissingRequired(df) == ~IsDataFrame(df) \/ required_cols \ df.cols # {}

FlaggedCount(df) == Len(SelectSeq(df.rows, IsFlagged))

\* C8 as stated: explain_anomalies never raises; a missing required column
\* gives an error marker, zero flagged rows give the info marker, and every
\* other input gives a report counting the flagged rows.
C8_NeverRaises_ThreeCases ==
    repOut # Pending =>
        /\ repOut # Raised
        /\ IF MissingRequired(repIn) THEN repOut.t = "error"
           ELSE IF FlaggedCount(repIn) = 0 THEN repOut = InfoMarker
           ELSE repOut.t = "report" /\ repOut.count = FlaggedCount(repIn)

\* C8 amended: explain_anomalies never raises; a missing required column
\* gives an error marker, zero flagged rows give the info marker, and every
\* other input gives either a report counting the flagged rows or, when
\* computing the aggregates raised, an error marker.
C8_NeverRaises_FourCases ==
    repOut # Pending =>
        /\ repOut # Raised
        /\ IF MissingRequired(repIn) THEN repOut.t = "error"
           ELSE IF FlaggedCount(repIn) = 0 THEN repOut = InfoMarker
           ELSE \/ repOut.t = "report" /\ repOut.count = FlaggedCount(repIn)
                \/ repOut.t = "error" /\ IsObjectColumn(repIn, "amount")

\* a report over two flagged rows out of three was returned
C8_Witness ==
    /\ repOut # Pending
    /\ repOut.t = "report"
    /\ repOut.count = 2
    /\ Len(repIn.rows) = 3

(***************************************************************************)
(* Specification SpecEtl: extract_transactions, transform_data and         *)
(* detect_anomalies applied in turn to a document                          *)
(***************************************************************************)
EUR == <<"E", "U", "R">>

EtlAmtElems ==
    {None,
     AmtElem(<<>>, Str(EUR)),
     AmtElem(<<"x">>, Str(EUR)),
     AmtElem(<<"-", "1", ".", "2", "3", "4">>, None),
     AmtElem(<<"7">>, Str(<<" ">>)),
     AmtElem(<<"0", ".", "1", "2", "5">>, Str(EUR))}

\* the optional elements of an entry: all present, all absent, all blank
\* or unparsable
Party(profile) ==
    CASE profile = "present" ->
            [name |-> [Nm |-> Str(<<" ", "a", "B">>)],
             acct |-> [Id |-> Str(<<"a", " ", "7">>)],
             date |-> Str(DateText)]
      [] profile = "absent" ->
            [name |-> None, acct |-> None, date |-> None]
      [] profile = "blank" ->
            [name |-> [Nm |-> Str(<<" ">>)],
             acct |-> [Id |-> Str(<<"\t">>)],
             date |-> Str(<<"x">>)]

Profiles == {"present", "absent", "blank"}

TxElem(id, amt, profile) ==
    [TxId           |-> Str(id),
     IntrBkSttlmAmt |-> amt,
     AccptncDtTm    |-> Party(profile).date,
     Dbtr           |-> Party(profile).name,
     Cdtr           |-> Party(profile).name,
     DbtrAcct       |-> Party(profile).acct,
     CdtrAcct       |-> Party(profile).acct]

EtlTxElems ==
    {TxElem(<<"T", "1">>, amt, profile) :
        amt \in EtlAmtElems, profile \in Profiles}

SeqsUpTo(S, n) == UNION {[1..k -> S] : k \in 0..n}

Malformed ==
    [wellformed |-> FALSE, valid |-> TRUE, text008 |-> TRUE,
     GrpHdr |-> None, txs |-> <<>>]

EtlDocs ==
    {Malformed}
    \cup {[wellformed |-> TRUE, valid |-> TRUE, text008 |-> TRUE,
           GrpHdr |-> hdr, txs |-> txs] :
             hdr \in {None, [CreDtTm |-> Str(DateText)]},
             txs \in SeqsUpTo(EtlTxElems, MaxTx)}

EtlInit ==
    /\ raw \in EtlDocs
    /\ stage = "uploaded"
    /\ records = Pending
    /\ tdf = Pending
    /\ sdf = Pending
    /\ DbIdle /\ RibIdle /\ RepIdle

Extract ==
    /\ stage = "uploaded"
    /\ records' = extract_transactions(raw)
    /\ stage' = "extracted"
    /\ UNCHANGED <<raw, tdf, sdf, dbVars, ribVars, repVars>>

Transform ==
    /\ stage = "extracted"
    /\ records # Raised
    /\ tdf' = transform_data(records)
    /\ stage' = "transformed"
    /\ UNCHANGED <<raw, records, sdf, dbVars, ribVars, repVars>>

Detect ==
    /\ stage = "transformed"
    /\ tdf # Raised
    /\ \E acceptsNaN \in BOOLEAN, scores \in [1..Len(tdf.rows) -> ScoreVals] :
          sdf' = detect_anomalies(tdf, acceptsNaN, scores)
    /\ stage' = "detected"
    /\ UNCHANGED <<raw, records, tdf, dbVars, ribVars, repVars>>

EtlNext == Extract \/ Transform \/ Detect

SpecEtl == EtlInit /\ [][EtlNext]_vars

Transformed == stage \in {"transformed", "detected"}

\* C4: the Transformer outputs as many rows as the Extractor produced
\* records, and the Detector outputs that same number of rows, for every
\* sequence of records (zero or one record, missing fields included).
C4_RowCountInvariance ==
    /\ Transformed =>
          tdf # Raised /\ Len(tdf.rows) = Len(records.v)
    /\ stage = "detected" =>
          sdf # Raised /\ Len(sdf.rows) = Len(records.v)

\* C5: every row output by transform_data has amount >= 0, also when the
\* Extractor recorded the raw amount as null.
C5_AmountNonNegative ==
    (Transformed /\ tdf # Raised) =>
        \A i \in 1..Len(tdf.rows) :
            tdf.rows[i].amount.t = "float" /\ tdf.rows[i].amount.v >= 0

NonBlankStr(x) == IsStr(x) /\ Strip(x.v) # <<>>

Filled(out, in, default) ==
    /\ NonBlankStr(out)
    /\ out = IF in = None \/ Strip(in.v) = <<>> THEN Str(default) ELSE in

DateFilled(out, in) ==
    /\ out.t = "ts"
    /\ (in = None \/ in.v # DateText) => out = Timestamp(SentinelDate)

\* C6: in every row output by transform_data the currency is a non-blank
\* string (MAD when the source had none), both names are non-blank strings
\* (UNKNOWN when the source had none), both dates are timestamps
\* (2000-01-01 when the source had none that parses) and both accounts are
\* strings.
C6_DefaultFilling ==
    (Transformed /\ tdf # Raised) =>
        \A i \in 1..Len(tdf.rows) :
            LET out == tdf.rows[i]
                in  == records.v[i]
            IN  /\ Filled(out.currency, in.currency, MAD)
                /\ Filled(out.debtor_name, in.debtor_name, UNKNOWN)
                /\ Filled(out.creditor_name, in.creditor_name, UNKNOWN)
                /\ DateFilled(out.creation_date, in.creation_date)
                /\ DateFilled(out.acceptance_datetime, in.acceptance_datetime)
                /\ IsStr(out.debtor_account)
                /\ IsStr(out.creditor_account)

\* a row was output whose currency, names, dates and accounts were all
\* absent from the source, next to a row that had them
C6_Witness ==
    /\ Transformed /\ tdf # Raised
    /\ \E i, j \in 1..Len(tdf.rows) :
          /\ records.v[i].currency = None
          /\ records.v[i].debtor_name = None
          /\ records.v[i].creation_date = None
          /\ records.v[i].debtor_account = None
          /\ tdf.rows[i].currency = Str(MAD)
          /\ records.v[j].debtor_name # None
          /\ tdf.rows[j].debtor_name = records.v[j].debtor_name

AmountLogIsLog1p(df) ==
    \A i \in 1..Len(df.rows) :
        df.rows[i]["amount"].t = "float" =>
            df.rows[i]["amount_log"] = Num(Log1p(df.rows[i]["amount"].v))

\* C7: amount_log of every row output by transform_data, and of every row
\* the Detector scores, is ln(1 + amount) of the row's amount.
C7_AmountLogIsLog1p ==
    /\ (Transformed /\ tdf # Raised) => AmountLogIsLog1p(tdf)
    /\ (stage = "detected" /\ sdf # Raised) => AmountLogIsLog1p(sdf)

\* C10: detect_anomalies raises whenever the amount column is absent or a
\* row's amount is null.
C10_DetectRejectsNullAmount ==
    (stage = "detected"
     /\ ("amount" \notin tdf.cols \/ HasNa(tdf, "amount"))) =>
        sdf = Raised

\* the settlement amount element of entry tx has text that float() rejects
AmountUnparsable(tx) ==
    /\ tx.IntrBkSttlmAmt # None
    /\ tx.IntrBkSttlmAmt.v # <<>>
    /\ ParseFloat(tx.IntrBkSttlmAmt.v) = Raised

\* C11: the record extracted from an entry whose settlement amount text
\* fails to parse has amount null and the currency of the element's Ccy
\* attribute (null only when the attribute is absent).
C11_CurrencyReadWhenAmountUnparsable ==
    (stage # "uploaded" /\ records # Raised) =>
        \A i \in 1..Len(records.v) :
            AmountUnparsable(raw.txs[i]) =>
                /\ records.v[i].amount = None
                /\ records.v[i].currency = raw.txs[i].IntrBkSttlmAmt.Ccy

(***************************************************************************)
(* Specification SpecDb: save_transactions called with any scored dataset  *)
(* and any document text, on the manager as constructed                    *)
(***************************************************************************)
\* the amount and the accounts of a row, as transform_data leaves them
Settlement(variant) ==
    CASE variant = "V1" -> [amount |-> Num(7000), account |-> Str(<<"A", "7">>)]
      [] variant = "V2" -> [amount |-> Num(1234), account |-> Str(<<>>)]

ScoredRow(id, variant, currency, score) ==
    [transaction_id      |-> Str(id),
     amount              |-> Settlement(variant).amount,
     currency            |-> Str(currency),
     creation_date       |-> Timestamp(20240501),
     acceptance_datetime |-> Timestamp(SentinelDate),
     debtor_name         |-> Str(UNKNOWN),
     debtor_account      |-> Settlement(variant).account,
     creditor_name       |-> Str(UNKNOWN),
     creditor_account    |-> Settlement(variant).account,
     amount_log          |-> AmountLog(Settlement(variant).amount),
     anomaly_score       |-> Num(score),
     is_anomaly          |-> IF score < 0 THEN Num(1) ELSE Num(0)]

ScoredCols == RecordCols \cup {"amount_log", "anomaly_score", "is_anomaly"}

SaveRows ==
    {ScoredRow(<<"T", "1">>, v, EUR, sc) : v \in {"V1", "V2"}, sc \in ScoreVals}
    \cup {ScoredRow(<<"T", "2">>, "V1", MAD, -50)}
    \cup {ScoredRow(<<"T", "2">>, "V2", <<"E", "U", "R", "O">>, 80)}

SaveBatches == {DataFrame(ScoredCols, rows) : rows \in SeqsUpTo(SaveRows, MaxBatch)}

\* after __init__: _init_db and _upgrade_db closed the connection they got,
\* or never got one
DbInit ==
    /\ store = NoRow
    /\ connection \in {"none", "closed"}
    /\ run = Pending
    /\ firstInsert = NoRow
    /\ lastSaved = NoRow
    /\ EtlIdle /\ RibIdle /\ RepIdle

Save ==
    \E df \in SaveBatches, text008 \in BOOLEAN :
      \E fault \in Faults(Len(df.rows)) :
        LET out == save_transactions(store, connection, df, text008, fault)
        IN  /\ SaveEffect(out, df, text008)
            /\ run' = [op |-> "save", result |-> out.result,
                       afterRows |-> FirstFailure(df.rows, fault) > 1]
            /\ UNCHANGED <<etlVars, ribVars, repVars>>

DbNext == Save

SpecDb == DbInit /\ [][DbNext]_vars

Resaved(id) == lastSaved[id] # None /\ lastSaved[id].resaved

KeptFromInsert(id) ==
    /\ store[id].is_anomaly = ToBool(firstInsert[id].is_anomaly)
    /\ store[id].anomaly_score = ToDecimal4(firstInsert[id].anomaly_score).v
    /\ store[id].file_type = firstInsert[id].file_type

AccountsFromLast(id) ==
    /\ store[id].debtor_account = lastSaved[id].debtor_account.v
    /\ store[id].creditor_account = lastSaved[id].creditor_account.v

\* C1 as stated: once a transaction_id that is in the store has been saved
\* again, the stored is_anomaly, anomaly_score and file_type are those of
\* its insert, and the stored amount and accounts equal the values of the
\* later call.
C1_ResaveKeepsAnomaly_ExactAmount ==
    \A id \in TxIds :
        Resaved(id) =>
            /\ store[id] # None
            /\ KeptFromInsert(id)
            /\ AccountsFromLast(id)
            /\ store[id].amount = lastSaved[id].amount

\* C1 amended: once a transaction_id that is in the store has been saved
\* again by a call that returned True, the stored is_anomaly, anomaly_score
\* and file_type are those of its insert, the stored accounts equal those
\* of the later call and the stored amount is the later call's amount
\* rounded to the two decimals of the column.
C1_ResaveKeepsAnomaly_RoundedAmount ==
    \A id \in TxIds :
        Resaved(id) =>
            /\ store[id] # None
            /\ KeptFromInsert(id)
            /\ AccountsFromLast(id)
            /\ store[id].amount = ToDecimal2(lastSaved[id].amount)

\* an id was saved again by a dataset whose anomaly flag and document
\* classification both differ from those of its insert, and with another
\* amount than the one inserted
C1_Witness ==
    \E id \in TxIds :
        /\ Resaved(id)
        /\ lastSaved[id].differed
        /\ store[id].debtor_account = <<>>
        /\ store[id].currency = EUR
        /\ store[id].is_anomaly

\* C2 as stated: a save in which a row fails returns False and leaves the
\* store as it was; a save that returns True has upserted every row.
C2_AllOrNothing_ReturnsFalse ==
    [][/\ (run'.result # "True") => /\ run'.result = "False"
                                    /\ store' = store
       /\ (run'.result = "True") =>
              \A id \in TxIds :
                  lastSaved'[id] # None =>
                      /\ store'[id] # None
                      /\ store'[id].amount = ToDecimal2(lastSaved'[id].amount)
                      /\ store'[id].debtor_account = lastSaved'[id].debtor_account.v
      ]_vars

\* C2 amended: a save in which a row fails returns False, or raises when
\* the rollback fails too because the connection is lost, and in both cases
\* leaves the store as it was; a save that returns True has upserted every
\* row.
C2_AllOrNothing ==
    [][/\ (run'.result # "True") => /\ run'.result \in {"False", "raised"}
                                    /\ store' = store
       /\ (run'.result = "True") =>
              \A id \in TxIds :
                  lastSaved'[id] # None =>
                      /\ store'[id] # None
                      /\ store'[id].amount = ToDecimal2(lastSaved'[id].amount)
                      /\ store'[id].debtor_account = lastSaved'[id].debtor_account.v
      ]_vars

\* a save failed after its first row had been upserted, while the store
\* held one row and lacked another
C2_Witness ==
    /\ run # Pending
    /\ run.result = "False"
    /\ run.afterRows
    /\ \E id \in TxIds : store[id] # None
    /\ \E id \in TxIds : store[id] = None

(***************************************************************************)
(* Specification SpecManager: the manager from its construction on, that   *)
(* is _init_db, then _upgrade_db, then any number of save_transactions.    *)
(*                                                                         *)
(* run describes the last operation: failed is whether the database failed *)
(* in it, reported whether its caller can tell (a False result or a raised *)
(* error; _init_db and _upgrade_db return None in every case), txn what    *)
(* became of its transaction, on the state of the handle its statements    *)
(* were executed on ("unused" when it executed none), repeated the ids     *)
(* that several rows of its dataset carry.  The schema itself is not a     *)
(* variable: statements that fail for want of the table are among the      *)
(* faults.                                                                 *)
(***************************************************************************)
\* lines 27-31: self.connection after the call, and whether connect raised
_get_connection(conn, fault) ==
    IF NeedsConnect(conn)
    THEN IF fault.stmt = 0
         THEN [raised |-> TRUE, connection |-> conn]
         ELSE [raised |-> FALSE, connection |-> "open"]
    ELSE [raised |-> FALSE, connection |-> conn]

\* conn.close() of the finally blocks (lines 70-72, 96-98, 150-152)
close(conn) == "closed"

\* what became of the transaction of an operation whose first failing
\* statement is k (0 if none): committed (lines 64, 89, 142), rolled back
\* by the handler (lines 68-69, 94-95, 147-148), discarded with the lost
\* connection when the rollback raised, or never opened
Transaction(got, fault, k) ==
    IF got.raised THEN "none"
    ELSE IF k = 0 THEN "committed"
    ELSE IF fault.stmt = k /\ fault.kind = "lost" THEN "discarded"
    ELSE "rolled back"

\* lines 58-72 and 76-98: n statements and a commit; the handler logs and
\* rolls back, nothing is returned, and only a rollback that raises leaves
\* the method by an exception
ExecuteAndCommit(conn, fault, n) ==
    LET got == _get_connection(conn, fault)
        k   == IF fault.stmt \in 1..(n + 1) THEN fault.stmt ELSE 0
        txn == Transaction(got, fault, k)
    IN  IF got.raised
        THEN [failed |-> TRUE, raised |-> FALSE, txn |-> txn,
              on |-> "unused", connection |-> got.connection]
        ELSE [failed |-> k # 0, raised |-> txn = "discarded", txn |-> txn,
              on |-> got.connection, connection |-> close(got.connection)]

\* the three commands of lines 35-56
InitCommands == 3

\* the two ALTER TABLE statements of lines 82-88
UpgradeCommands == 2

_init_db(conn, fault) == ExecuteAndCommit(conn, fault, InitCommands)

_upgrade_db(conn, fault) == ExecuteAndCommit(conn, fault, UpgradeCommands)

ManagerRows ==
    {ScoredRow(<<"T", "1">>, "V1", EUR, -50),
     ScoredRow(<<"T", "1">>, "V2", EUR, 83),
     ScoredRow(<<"T", "2">>, "V1", MAD, -50),
     ScoredRow(<<"T", "2">>, "V2", <<"E", "U", "R", "O">>, 80)}

ManagerBatches ==
    {DataFrame(ScoredCols, rows) : rows \in SeqsUpTo(ManagerRows, MaxBatch)}

\* line 23, before line 24
ManagerInit ==
    /\ store = NoRow
    /\ connection = "none"
    /\ run = [op |-> "__init__", failed |-> FALSE, reported |-> FALSE,
              txn |-> "none", on |-> "unused", repeated |-> {}]
    /\ firstInsert = NoRow
    /\ lastSaved = NoRow
    /\ EtlIdle /\ RibIdle /\ RepIdle

\* line 24
InitDb ==
    /\ run.op = "__init__"
    /\ \E fault \in Faults(InitCommands) :
         LET out == _init_db(connection, fault)
         IN  /\ connection' = out.connection
             /\ run' = [op |-> "_init_db", failed |-> out.failed,
                        reported |-> out.raised, txn |-> out.txn,
                        on |-> out.on, repeated |-> {}]
    /\ UNCHANGED <<store, firstInsert, lastSaved, etlVars, ribVars, repVars>>

\* line 25, reached unless _init_db raised
UpgradeDb ==
    /\ run.op = "_init_db"
    /\ ~run.reported
    /\ \E fault \in Faults(UpgradeCommands) :
         LET out == _upgrade_db(connection, fault)
         IN  /\ connection' = out.connection
             /\ run' = [op |-> "_upgrade_db", failed |-> out.failed,
                        reported |-> out.raised, txn |-> out.txn,
                        on |-> out.on, repeated |-> {}]
    /\ UNCHANGED <<store, firstInsert, lastSaved, etlVars, ribVars, repVars>>

\* db_manager exists (line 155) once __init__ returned
Constructed ==
    \/ run.op = "_upgrade_db" /\ ~run.reported
    \/ run.op = "save_transactions"

ManagerSave ==
    /\ Constructed
    /\ \E df \in ManagerBatches, text008 \in BOOLEAN :
         \E fault \in Faults(Len(df.rows)) :
           LET out == save_transactions(store, connection, df, text008, fault)
               got == _get_connection(connection, fault)
               k   == FirstFailure(df.rows, fault)
           IN  /\ SaveEffect(out, df, text008)
               /\ run' = [op |-> "save_transactions",
                          failed |-> got.raised \/ k # 0,
                          reported |-> out.result # "True",
                          txn |-> Transaction(got, fault, k),
                          on |-> IF got.raised THEN "unused"
                                 ELSE got.connection,
                          repeated |->
                              {id \in TxIds : Len(RowsOf(df, id)) > 1}]
    /\ UNCHANGED <<etlVars, ribVars, repVars>>

ManagerNext == InitDb \/ UpgradeDb \/ ManagerSave

SpecManager == ManagerInit /\ [][ManagerNext]_vars

\* C12: whenever the database failed in the last operation (_init_db,
\* _upgrade_db or save_transactions), nothing of its transaction was
\* committed and the failure was reported to the caller of the operation,
\* by a failure result or by a raised error.
C12_FailureRolledBackAndReported ==
    run.failed =>
        /\ run.txn # "committed"
        /\ run.reported

\* C13: after every operation the connection is not open; the operation
\* executed its statements, if any, on an open handle (reused if it was
\* open, re-established if it was absent or closed) and that handle is
\* closed; an operation executed no statement only when its connection
\* attempt failed.
C13_ConnectionScopedToOperation ==
    /\ connection # "open"
    /\ run.on \in {"open", "unused"}
    /\ run.on = "open" => connection = "closed"
    /\ (run.op # "__init__" /\ run.on = "unused") =>
           (run.failed /\ run.txn = "none")

\* a save failed on the connection it had re-established after the closed one
\* of an earlier, committed save
C13_Witness ==
    /\ run.op = "save_transactions"
    /\ run.failed
    /\ run.on = "open"
    /\ connection = "closed"
    /\ \E id \in TxIds : store[id] # None

\* the last operation was a save that returned True and whose dataset had
\* several rows of id
SavedRepeated(id) ==
    /\ run.op = "save_transactions"
    /\ ~run.reported
    /\ id \in run.repeated

StoredIds == {id \in TxIds : store[id] # None}

\* C14 as stated: after a successful save whose dataset has several rows of
\* one transaction_id, the store holds a row of that id whose is_anomaly,
\* anomaly_score and file_type are those of the first such row ever
\* inserted and whose amount and accounts are those of the last such row of
\* the dataset; and no step makes the number of stored rows smaller.
C14_DuplicatesFirstAndLast_Exact ==
    /\ [](\A id \in TxIds :
            SavedRepeated(id) =>
                /\ store[id] # None
                /\ store[id].is_anomaly = ToBool(firstInsert[id].is_anomaly)
                /\ store[id].anomaly_score = firstInsert[id].anomaly_score.v
                /\ store[id].file_type = firstInsert[id].file_type
                /\ AccountsFromLast(id)
                /\ store[id].amount = lastSaved[id].amount)
    /\ [][Cardinality(StoredIds') >= Cardinality(StoredIds)]_vars

\* C14 amended: after a successful save whose dataset has several rows of
\* one transaction_id, the store holds a row of that id whose is_anomaly and
\* file_type are those of the first such row ever inserted, whose
\* anomaly_score is that row's rounded to the four decimals of the column,
\* whose accounts are those of the last such row of the dataset and whose
\* amount is that row's rounded to the two decimals of the column; and no
\* step makes the number of stored rows smaller.
C14_DuplicatesFirstAndLast ==
    /\ [](\A id \in TxIds :
            SavedRepeated(id) =>
                /\ store[id] # None
                /\ KeptFromInsert(id)
                /\ AccountsFromLast(id)
                /\ store[id].amount = ToDecimal2(lastSaved[id].amount))
    /\ [][Cardinality(StoredIds') >= Cardinality(StoredIds)]_vars

\* a dataset with two different rows of one id was saved: the stored row
\* has the anomaly flag of the one and the empty account of the other
C14_Witness ==
    \E id \in TxIds :
        /\ SavedRepeated(id)
        /\ store[id] # None
        /\ store[id].is_anomaly
        /\ store[id].debtor_account = <<>>

(***************************************************************************)
(* main.main: one execution of the upload flow, from the upload to the end *)
(* of the script run (Streamlit runs the script anew on every interaction, *)
(* clicked says whether this run is the one after a press of the button)   *)
(***************************************************************************)
\* validation.validate_xml_with_xsd, the external schema validator: pass or
\* fail, a property of the document
validate_xml_with_xsd(doc) == [is_valid |-> doc.valid]

\* a flow that goes on whatever the validator said
ValidationFailed_ignored(v) == FALSE

\* line 105
ValidationFailed(v) == ~v.is_valid

MainTxElems ==
    {TxElem(<<"T", "1">>, AmtElem(<<"7">>, Str(EUR)), "present"),
     TxElem(<<"T", "1">>, AmtElem(<<"-", "1", ".", "2", "3", "4">>, None), "absent"),
     TxElem(<<"T", "2">>, None, "blank")}

WellFormedDocs ==
    {[wellformed |-> TRUE, valid |-> valid, text008 |-> text008,
      GrpHdr |-> [CreDtTm |-> Str(DateText)], txs |-> txs] :
        valid \in BOOLEAN, text008 \in BOOLEAN,
        txs \in SeqsUpTo(MainTxElems, MaxEntries)}

MainDocs ==
    {Malformed} \cup {doc \in WellFormedDocs : doc.txs # <<>> => doc.text008}

MainInit == DbInit

\* the run ended without touching the database
MainEnds(doc, calls, outcome) ==
    /\ run' = [op |-> "main", valid |-> doc.valid, entries |-> Len(doc.txs),
               calls |-> calls, outcome |-> outcome]
    /\ UNCHANGED <<store, connection, firstInsert, lastSaved>>

\* lines 185-196
MainSaves(doc, df, calls) ==
    \E fault \in Faults(Len(df.rows)) :
        LET out == save_transactions(store, connection, df, doc.text008, fault)
        IN  /\ SaveEffect(out, df, doc.text008)
            /\ run' = [op |-> "main", valid |-> doc.valid,
                       entries |-> Len(doc.txs),
                       calls |-> IF out.result = "True"
                                 THEN calls \o <<"save", "explain">>
                                 ELSE calls \o <<"save">>,
                       outcome |-> CASE out.result = "True" -> "saved"
                                     [] out.result = "False" -> "save_failed"
                                     [] OTHER -> "save_raised"]

\* lines 101-196
Main ==
    /\ \E doc \in MainDocs :
        IF ValidationFailed(validate_xml_with_xsd(doc))
        THEN MainEnds(doc, <<"validate">>, "rejected")
        ELSE
        LET transactions == extract_transactions(doc)
        IN  IF transactions = Raised
            THEN MainEnds(doc, <<"validate", "extract">>, "error")
            ELSE
            LET df == transform_data(transactions)
            IN  IF df = Raised
                THEN MainEnds(doc, <<"validate", "extract", "transform">>, "error")
                ELSE
                \E acceptsNaN \in BOOLEAN, scores \in [1..Len(df.rows) -> ScoreVals] :
                    LET scored == detect_anomalies(df, acceptsNaN, scores)
                        calls  == <<"validate", "extract", "transform", "detect">>
                    IN  IF scored = Raised THEN MainEnds(doc, calls, "error")
                        ELSE \E clicked \in BOOLEAN :
                                IF clicked THEN MainSaves(doc, scored, calls)
                                ELSE MainEnds(doc, calls, "displayed")
    /\ UNCHANGED <<etlVars, ribVars, repVars>>

MainNext == Main

SpecMain == MainInit /\ [][MainNext]_vars

Before(calls, a, i) == \E j \in 1..(i - 1) : calls[j] = a

\* C3: in every run of the upload flow the validator is invoked before
\* extract_transactions, and neither extraction nor transformation,
\* detection, saving or reporting is started for a document the validator
\* failed.
C3_NoExtractionWhenRejected ==
    run # Pending =>
        \A i \in 1..Len(run.calls) :
            run.calls[i] # "validate" =>
                run.valid /\ Before(run.calls, "validate", i)

\* the validator failed a document that has entries, and the run made no
\* other call
C3_Witness ==
    /\ run # Pending
    /\ ~run.valid
    /\ run.entries > 0
    /\ run.calls = <<"validate">>

====
